---------------------------- MODULE Spec2Model ----------------------------
(***************************************************************************)
(* Model of the GPU-rental orchestrators (vastai_client.py,                *)
(* runpod_client.py) and of the separation service (server.py).            *)
(*                                                                         *)
(* Spec        one orchestration run (cmd_separate of either provider)     *)
(*             against the marketplace and the service of its instance.    *)
(* ServerSpec  the service alone, driven by arbitrary HTTP clients.        *)
(***************************************************************************)
EXTENDS Integers, Sequences, FiniteSets, TLC

\* ------------------------------------------------------------------ bounds
\* Longest ranked offer list handed to the provisioning loop.
MaxOffers == 2
\* Timeout of the readiness wait, in sleep intervals of its polling loop.
ReadyTimeout == 2
\* Timeout of the job wait, in sleep intervals of its polling loop.
JobTimeout == 2
\* Longest job log on the service, in bytes.
MaxLog == 2
\* Job ids a client of the service may ask for.
MaxJobIds == 2
\* POST /job requests the service accepts in one behaviour.
MaxSubmits == 2
\* Longest catalog of offers the Vast marketplace holds.
MaxRaw == 21
\* Longest list of GPU types the RunPod marketplace holds.
MaxGpus == 11

Steps_frozen == {0}

\* Advance of the clock during one loop iteration, in sleep intervals: the
\* sleep alone, or the sleep and calls taking as long again.
Steps == {1, 2}
\* The (host, port) pairs the marketplace may report; 0 stands for none.
Endpoints == {1, 2}

\* --------------------------------------------------------- program constants
\* range(60): polls of /status while the models are being extracted.
ModelsPollMax == 60
\* MIN_VRAM_GB: minimum VRAM of an offer, in GB.
MIN_VRAM_GB == 8
\* 0.9, as a percentage: minimum reliability of a Vast offer.
MinReliability == 90
\* The price given to an offer that carries none.
DefaultPrice == 999
\* gpus[:10]: the cheapest GPU types searched for a preferred model.
TopK == 10
\* max_results of the ranking call of cmd_separate.
MaxResults == 10
\* max_results * 2: offers fetched per result asked for.
OverFetch == 2
\* len(PREFERRED_GPUS).
NumPreferred == 7

VARIABLES
    \* ---- the run (cmd_separate)
    provider,       \* "vast" | "runpod": which client runs
    keep,           \* args.keep_instance / args.keep_pod
    nOffers,        \* length of the ranked offer list the marketplace query gives
    pc,             \* control position of cmd_separate
    idx,            \* position of the provisioning loop in the ranked list
    createLog,      \* history: one record per create call, in call order
    instance,       \* instance_id / pod_id of the run, 0 = None
    elapsed,        \* time.time() - start of the current polling loop
    readyObs,       \* what the last readiness poll saw
    api_url,        \* endpoint the readiness wait returned, 0 = None
    modelPolls,     \* RunPod: /status polls made inside the 60-poll loop
    statusReady,    \* RunPod: models_ready of the last /status reply
    job_id,         \* job id returned by POST /job, 0 = none
    jobSeen,        \* status of the last status poll of the job wait
    log_offset,     \* wait_for_job: byte offset of the log cursor
    stream_logs,    \* wait_for_job: log streaming still enabled
    sentOffsets,    \* history: the offsets sent with log fetches, in order
    emitted,        \* history: the byte ranges printed, in order
    calls,          \* history: which kinds of remote call were issued so far
    exc,            \* exception propagating out of cmd_separate
    firstError,     \* history: the first exception raised in the run
    destroyCalls,   \* history: destroy_instance / stop_pod calls issued
    downloaded,     \* history: the result download succeeded
    teardownFailed, \* history: the destroy call failed
    submitCalls,    \* history: POST /job requests the run issued
    destroyReply,   \* history: what the marketplace answered the destroy call
    probeFailed,    \* history: a health probe of the readiness wait failed
    fetchFailed,    \* history: a log fetch of the job wait raised
    \* ---- the service (server.py)
    JOBS,           \* the job table: job id -> [status, error]
    tasks,          \* background tasks added and not yet ended
    nextTid,        \* number of background tasks added so far, plus one
    modelsReady,    \* check_models_ready()
    logLen,         \* length of the log of the run's job on the service
    \* ---- the ranking (get_ranked_offers / get_ranked_gpus)
    catalog,        \* the offers the marketplace holds, in its own order
    ranked,         \* the ranked list returned
    rankPc,         \* "idle" | "query" | "ranked"
    \* ---- the batch launcher (test_concurrent_instances.py)
    bpc,            \* "idle" | "loop" | "in_call" | "pass": the running process
    num_instances,  \* --num-instances of the launcher run
    available_offers, \* the offer list fetched in __init__ (offer ids)
    offer_index,    \* self.offer_index
    success_count,  \* self.success_count
    fail_count,     \* self.fail_count
    instances,      \* self.instances: the ids of its records, in order
    launchI,        \* loop variable i of run: attempts completed
    inflight,       \* create call in flight: id the marketplace made, 0 = none
    attempts,       \* history: the offer each attempt of the run asked for
    queries,        \* history: get_ranked_offers calls of the run
    created,        \* history: ids the marketplace created for the run
    regFile,        \* active_instances.json: [exists, list of records,
                    \* whole: the text is a complete JSON list]
    nextId,         \* id the marketplace gives the next instance it creates
    confirmed,      \* history: ids whose destroy call reported success
    recorded,       \* history: ids that were written to the file
    destroyList,    \* destroy_all_instances: the list read from the file
    destroyIdx,     \* position of the pass in that list
    success,        \* destroy_all_instances: success
    failed,         \* destroy_all_instances: failed
    passReplies,    \* history: the destroy calls of the pass: [id, reply]
    ended,          \* how the last process ended
    runs,           \* launcher runs started so far
    apiKey          \* VASTAI_API_KEY is set for the process

runVars == <<provider, keep, nOffers, pc, idx, createLog, instance, elapsed,
             readyObs, api_url, modelPolls, statusReady, job_id, jobSeen, log_offset,
             stream_logs, sentOffsets, emitted, calls, exc, firstError,
             destroyCalls, downloaded, teardownFailed, submitCalls,
             destroyReply, probeFailed, fetchFailed>>
svcVars == <<JOBS, tasks, nextTid, modelsReady, logLen>>
rankVars == <<catalog, ranked, rankPc>>
batchVars == <<bpc, num_instances, available_offers, offer_index,
               success_count, fail_count, instances, launchI, inflight,
               attempts, queries, created, regFile, nextId, confirmed,
               recorded, destroyList, destroyIdx, success, failed,
               passReplies, ended, runs, apiKey>>
vars == <<runVars, svcVars, rankVars, batchVars>>

\* ------------------------------------------------------------- exceptions
Exc(kind, inst, text) == [kind |-> kind, inst |-> inst, text |-> text]
NoExc == Exc("none", 0, "")

\* The first exception of a run is kept; later ones do not replace it.
First(e) == IF firstError = NoExc THEN e ELSE firstError

\* ------------------------------------------------------- marketplace: create
\* The outcome of a create call: success, or the text of the failure, as the
\* set of phrases its lower-cased message contains.
CreateOk == {"success"}
CreateFailures == {{"resources", "not have"}, {"resources"}, {"unauthorized"}}
CreateOutcomes == {CreateOk} \cup CreateFailures

\* try_create_pod: the failure is "GPU unavailable" when the message contains
\* "resources" or "not have".
IsCapacityMsg(msg) == "resources" \in msg \/ "not have" \in msg

\* Mutant: try_create_pod re-raises every failure.
RunPodSwallows_none(msg) == FALSE

\* Whether the provisioning loop goes on to the next offer after this failure.
VastSwallows(msg) == TRUE
RunPodSwallows(msg) == IsCapacityMsg(msg)
Swallows(msg) == IF provider = "vast" THEN VastSwallows(msg) ELSE RunPodSwallows(msg)

\* Instance ids are handed out by the marketplace; the one created from the
\* offer at position i of the ranked list.
InstanceOf(i) == 100 + i

\* ------------------------------------------------------------------ Init
NoObs == [status |-> "none", ep |-> 0, probed |-> 0, code |-> 0]

\* The state of a run that has not started, but for its inputs.
RunRest ==
    /\ pc = "start"
    /\ idx = 1
    /\ createLog = <<>>
    /\ instance = 0
    /\ elapsed = 0
    /\ readyObs = NoObs
    /\ api_url = 0
    /\ modelPolls = 0
    /\ statusReady = FALSE
    /\ job_id = 0
    /\ jobSeen = "none"
    /\ log_offset = 0
    /\ stream_logs = FALSE
    /\ sentOffsets = <<>>
    /\ emitted = <<>>
    /\ calls = {}
    /\ exc = NoExc
    /\ firstError = NoExc
    /\ destroyCalls = 0
    /\ downloaded = FALSE
    /\ teardownFailed = FALSE
    /\ submitCalls = 0
    /\ destroyReply = "none"
    /\ probeFailed = FALSE
    /\ fetchFailed = FALSE

RunInit ==
    /\ provider \in {"vast", "runpod"}
    /\ keep \in BOOLEAN
    /\ nOffers \in 0..MaxOffers
    /\ RunRest

SvcInit ==
    /\ JOBS = <<>>
    /\ tasks = {}
    /\ nextTid = 1
    /\ modelsReady \in BOOLEAN
    /\ logLen = 0

\* No ranking is followed: a run is given the length of its ranked list.
RankIdle ==
    /\ catalog = <<>>
    /\ ranked = <<>>
    /\ rankPc = "idle"

\* The registry file of the batch launcher when there is none.
NoFile == [exists |-> FALSE, list |-> <<>>, whole |-> TRUE]

\* The launcher's own fields as __init__ sets them, and its histories.
LauncherRest ==
    /\ offer_index = 0
    /\ success_count = 0
    /\ fail_count = 0
    /\ instances = <<>>
    /\ launchI = 0
    /\ inflight = 0
    /\ attempts = <<>>
    /\ queries = 0
    /\ created = {}

\* The locals of destroy_all_instances before a pass.
PassRest ==
    /\ destroyList = <<>>
    /\ destroyIdx = 1
    /\ success = 0
    /\ failed = 0
    /\ passReplies = <<>>

\* No batch process has run: nothing launched, nothing destroyed.
BatchRest ==
    /\ bpc = "idle"
    /\ num_instances = 0
    /\ available_offers = <<>>
    /\ LauncherRest
    /\ PassRest
    /\ nextId = 1
    /\ confirmed = {}
    /\ recorded = {}
    /\ ended = "none"
    /\ runs = 0
    /\ apiKey = TRUE

\* No batch process is followed.
BatchIdle == BatchRest /\ regFile = NoFile

Init == RunInit /\ SvcInit /\ RankIdle /\ BatchIdle

\* ------------------------------------------------- raising and returning
\* An exception raised outside the try block ends the run at once.
RaiseOutside(e) ==
    /\ exc' = e
    /\ firstError' = First(e)
    /\ pc' = "done"

\* An exception raised inside the try block runs the finally clause.
RaiseInTry(e) ==
    /\ exc' = e
    /\ firstError' = First(e)
    /\ pc' = "finally"

InTry == {"wait_ready", "models_check", "models_wait", "submit", "wait_job",
          "download"}

\* ------------------------------------------------------------ provisioning
\* cmd_separate up to the provisioning loop: the ranked offers are queried
\* and an empty list ends the run with sys.exit(1).
Start ==
    /\ pc = "start"
    /\ \/ /\ provider = "runpod"
          /\ RaiseOutside(Exc("TransportError", 0, "gpuTypes"))
          /\ UNCHANGED idx
       \/ /\ nOffers = 0
          /\ RaiseOutside(Exc("SystemExit", 0, "no offers"))
          /\ UNCHANGED idx
       \/ /\ nOffers > 0
          /\ pc' = "provision"
          /\ idx' = 1
          /\ UNCHANGED <<exc, firstError>>
    /\ calls' = calls \cup {"offers"}
    /\ UNCHANGED <<submitCalls, destroyReply, probeFailed, fetchFailed,
                   provider, keep, nOffers, createLog, instance, elapsed,
                   readyObs, api_url, modelPolls, statusReady, job_id,
                   jobSeen, log_offset, stream_logs, sentOffsets, emitted,
                   destroyCalls, downloaded, teardownFailed, svcVars, rankVars,
                   batchVars>>

\* Mutant: the loop goes on after a successful create call.
Breaks_never(out) == FALSE

\* `break` after a successful create call.
Breaks(out) == out = CreateOk

\* One iteration of the provisioning loop: a create call on the offer at idx.
TryCreate ==
    /\ pc = "provision"
    /\ \E out \in CreateOutcomes :
         LET inst == IF out = CreateOk THEN InstanceOf(idx) ELSE instance IN
         /\ createLog' = Append(createLog, [offer |-> idx, outcome |-> out])
         /\ instance' = inst
         /\ IF out # CreateOk /\ ~Swallows(out)
               THEN /\ RaiseOutside(Exc("CreateError", 0, "create"))
                    /\ UNCHANGED idx
               ELSE IF Breaks(out)
               THEN /\ pc' = "created"
                    /\ UNCHANGED <<idx, exc, firstError>>
               ELSE IF idx < nOffers
               THEN /\ idx' = idx + 1
                    /\ UNCHANGED <<pc, exc, firstError>>
               ELSE IF inst = 0
               THEN /\ RaiseOutside(Exc("SystemExit", 0, "no instance"))
                    /\ UNCHANGED idx
               ELSE /\ pc' = "created"
                    /\ UNCHANGED <<idx, exc, firstError>>
    /\ calls' = calls \cup {"create"}
    /\ UNCHANGED <<submitCalls, destroyReply, probeFailed, fetchFailed,
                   provider, keep, nOffers, elapsed, readyObs, api_url,
                   modelPolls, statusReady, job_id, jobSeen, log_offset,
                   stream_logs, sentOffsets, emitted, destroyCalls,
                   downloaded, teardownFailed, svcVars, rankVars,
                   batchVars>>

\* Mutant: the job is submitted without waiting for the instance.
EnterTry_skipWait ==
    /\ pc = "created"
    /\ pc' = "submit"
    /\ elapsed' = 0
    /\ UNCHANGED <<submitCalls, destroyReply, probeFailed, fetchFailed,
                   provider, keep, nOffers, idx, createLog, instance,
                   readyObs, api_url, modelPolls, statusReady, job_id,
                   jobSeen, log_offset, stream_logs, sentOffsets, emitted,
                   calls, exc, firstError, destroyCalls, downloaded,
                   teardownFailed, svcVars, rankVars,
                   batchVars>>

\* instance_id = instance["id"], the print, and entry into the try block.
EnterTry ==
    /\ pc = "created"
    /\ pc' = "wait_ready"
    /\ elapsed' = 0
    /\ UNCHANGED <<submitCalls, destroyReply, probeFailed, fetchFailed,
                   provider, keep, nOffers, idx, createLog, instance,
                   readyObs, api_url, modelPolls, statusReady, job_id,
                   jobSeen, log_offset, stream_logs, sentOffsets, emitted,
                   calls, exc, firstError, destroyCalls, downloaded, teardownFailed,
                   svcVars, rankVars,
                   batchVars>>

\* KeyboardInterrupt: raised wherever the run is; only inside the try block
\* does the finally clause run.  The counter of the models loop is dead then.
Interrupt ==
    /\ pc # "done"
    /\ IF pc \in InTry
         THEN RaiseInTry(Exc("KeyboardInterrupt", 0, ""))
         ELSE RaiseOutside(Exc("KeyboardInterrupt", 0, ""))
    /\ modelPolls' = 0
    /\ UNCHANGED <<submitCalls, destroyReply, probeFailed, fetchFailed,
                   provider, keep, nOffers, idx, createLog, instance, elapsed,
                   readyObs, api_url, statusReady, job_id,
                   jobSeen, log_offset, stream_logs, sentOffsets, emitted,
                   calls, destroyCalls, downloaded, teardownFailed, svcVars, rankVars,
                   batchVars>>

\* ------------------------------------------------------------- readiness
VastStatuses == {"error", "not_found", "loading", "running"}
RunPodStatuses == {"CREATED", "RUNNING", "EXITED"}
\* Status codes of GET /health; 0 stands for a request that raised.
HealthCodes == {200, 503, 0}

\* What get_instance returns: "error" and "not_found" replies carry neither
\* an address nor a port mapping; ep is the (host, port) pair mapped to the
\* service port, 0 when the address or the mapping is missing.
VastReplies ==
    {r \in [status : VastStatuses, ep : {0} \cup Endpoints] :
        r.status \in {"error", "not_found"} => r.ep = 0}

\* What get_pod returns: desiredStatus, and in runtime.ports the pair mapped
\* to privatePort 8185 (0 when there is none, or ip / publicPort is empty).
RunPodReplies == [status : RunPodStatuses, ep : {0} \cup Endpoints]

\* Whether the poll goes on to the health probe.
VastProbes(r) == r.status = "running" /\ r.ep # 0
RunPodProbes(r) == r.ep # 0
Probes(r) == IF provider = "vast" THEN VastProbes(r) ELSE RunPodProbes(r)

\* The poll as observed: the reply, the pair probed and the probe's code.
Observation(r, code) ==
    [status |-> r.status, ep |-> r.ep,
     probed |-> IF Probes(r) THEN r.ep ELSE 0,
     code |-> IF Probes(r) THEN code ELSE 0]

ReadyResult_anyCode(obs) == obs.probed

\* The URL the poll returns, 0 when the loop goes on.
ReadyResult(obs) == IF obs.probed # 0 /\ obs.code = 200 THEN obs.probed ELSE 0

\* The health probe was issued and did not answer 200: the request raised
\* (code 0) or the service answered another status.
ProbeFails(obs) == obs.probed # 0 /\ obs.code # 200

\* Mutant: a failed status poll raises for both providers.
StatusPollRaises_both(p) == TRUE

\* Whether the status poll of the readiness loop can raise: get_instance
\* catches every exception and returns status "error" (vastai_client.py
\* lines 246-248); get_pod lets the exception of its request through.
StatusPollRaises(p) == p = "runpod"

\* One iteration of the polling loop of wait_for_instance_ready /
\* wait_for_pod_ready, whose get_pod call may raise.
ReadyPoll ==
    /\ pc = "wait_ready"
    /\ elapsed < ReadyTimeout
    /\ calls' = calls \cup {"ready_poll"}
    /\ \/ /\ StatusPollRaises(provider)
          /\ RaiseInTry(Exc("TransportError", 0, "get_pod"))
          /\ UNCHANGED <<readyObs, api_url, elapsed, probeFailed>>
       \/ \E r \in (IF provider = "vast" THEN VastReplies ELSE RunPodReplies),
             code \in HealthCodes, d \in Steps :
            LET obs == Observation(r, code)
                url == ReadyResult(obs) IN
            /\ readyObs' = obs
            /\ probeFailed' = (probeFailed \/ ProbeFails(obs))
            /\ IF url # 0
                 THEN /\ api_url' = url
                      /\ pc' = IF provider = "vast" THEN "submit"
                                                    ELSE "models_check"
                      /\ UNCHANGED elapsed
                 ELSE /\ elapsed' = elapsed + d
                      /\ UNCHANGED <<api_url, pc>>
            /\ UNCHANGED <<exc, firstError>>
    /\ UNCHANGED <<submitCalls, destroyReply, fetchFailed,
                   provider, keep, nOffers, idx, createLog, instance,
                   modelPolls, statusReady, job_id, jobSeen, log_offset,
                   stream_logs, sentOffsets, emitted, destroyCalls,
                   downloaded, teardownFailed, svcVars, rankVars,
                   batchVars>>

\* Mutant: the timeout error of the readiness wait names no instance.
ReadyTimeoutExc_noId == Exc("TimeoutError", 0, "not ready")

\* What leaves the readiness wait when its deadline has passed: Vast returns
\* None and cmd_separate raises "Instance failed to start"; RunPod raises
\* TimeoutError naming the pod.
ReadyTimeoutExc ==
    IF provider = "vast" THEN Exc("Exception", 0, "Instance failed to start")
                         ELSE Exc("TimeoutError", instance, "not ready")

\* The deadline check of the readiness loop fails.
ReadyTimedOut ==
    /\ pc = "wait_ready"
    /\ elapsed >= ReadyTimeout
    /\ RaiseInTry(ReadyTimeoutExc)
    /\ UNCHANGED <<submitCalls, destroyReply, probeFailed, fetchFailed,
                   provider, keep, nOffers, idx, createLog, instance, elapsed,
                   readyObs, api_url, modelPolls, statusReady, job_id,
                   jobSeen, log_offset, stream_logs, sentOffsets, emitted,
                   calls, destroyCalls, downloaded, teardownFailed, svcVars, rankVars,
                   batchVars>>

\* ------------------------------------------------- RunPod: models ready
\* demucs.status() right after the readiness wait.
ModelsCheck ==
    /\ pc = "models_check"
    /\ calls' = calls \cup {"status"}
    /\ \/ /\ RaiseInTry(Exc("TransportError", 0, "status"))
          /\ UNCHANGED <<statusReady, modelPolls>>
       \/ /\ statusReady' = modelsReady
          /\ modelPolls' = 0
          /\ pc' = IF modelsReady THEN "submit" ELSE "models_wait"
          /\ UNCHANGED <<exc, firstError>>
    /\ UNCHANGED <<submitCalls, destroyReply, probeFailed, fetchFailed,
                   provider, keep, nOffers, idx, createLog, instance, elapsed,
                   readyObs, api_url, job_id, jobSeen, log_offset,
                   stream_logs, sentOffsets, emitted, destroyCalls,
                   downloaded, teardownFailed, svcVars, rankVars,
                   batchVars>>

\* Mutant: the loop goes on until the models are ready.
ModelsLoopEnds_onlyWhenReady(ready, polls) == ready

\* for _ in range(60) ... break, lines 472-476: the loop is left by the break
\* on models_ready, or after its last iteration; polls counts the
\* iterations made before this one.
ModelsLoopEnds(ready, polls) == ready \/ polls + 1 = ModelsPollMax

\* One iteration of `for _ in range(60)`: sleep, status, break when ready.
\* The loop counter is dead once the loop is left.
ModelsPoll ==
    /\ pc = "models_wait"
    /\ calls' = calls \cup {"status"}
    /\ \/ /\ RaiseInTry(Exc("TransportError", 0, "status"))
          /\ modelPolls' = 0
          /\ UNCHANGED statusReady
       \/ /\ statusReady' = modelsReady
          /\ IF ModelsLoopEnds(modelsReady, modelPolls)
               THEN pc' = "submit" /\ modelPolls' = 0
               ELSE pc' = pc /\ modelPolls' = modelPolls + 1
          /\ UNCHANGED <<exc, firstError>>
    /\ UNCHANGED <<submitCalls, destroyReply, probeFailed, fetchFailed,
                   provider, keep, nOffers, idx, createLog, instance, elapsed,
                   readyObs, api_url, job_id, jobSeen, log_offset,
                   stream_logs, sentOffsets, emitted, destroyCalls,
                   downloaded, teardownFailed, svcVars, rankVars,
                   batchVars>>

\* ------------------------------------------------------------ the service
JobIds == 1..MaxJobIds
Entry(st, err) == [status |-> st, error |-> err]

\* str(uuid.uuid4())[:8]: an id no job of the table has.
FreshId == CHOOSE i \in JobIds : i \notin DOMAIN JOBS

\* Mutant: an id already in the table is accepted again.
CreateJobCode_noDuplicateCheck(id) ==
    IF ~modelsReady THEN 503 ELSE 200

\* create_job: the status code of POST /job for job id `id`.
CreateJobCode(id) ==
    IF id \in DOMAIN JOBS THEN 409
    ELSE IF ~modelsReady THEN 503
    ELSE 200

\* create_job: the job table and the background tasks after POST /job.
create_job(id) ==
    IF CreateJobCode(id) = 200
      THEN /\ JOBS' = [j \in DOMAIN JOBS \cup {id} |->
                         IF j = id THEN Entry("pending", "none") ELSE JOBS[j]]
           /\ tasks' = tasks \cup {[tid |-> nextTid, job |-> id,
                                    phase |-> "queued"]}
           /\ nextTid' = nextTid + 1
      ELSE UNCHANGED <<JOBS, tasks, nextTid>>

\* get_job_status: the status code of GET /job/{id}.
GetJobCode(id) == IF id \in DOMAIN JOBS THEN 200 ELSE 404

\* Mutant: the result is served whatever the status of the job.
GetResultCode_anyStatus(id, fileExists) ==
    IF id \notin DOMAIN JOBS THEN 404
    ELSE IF ~fileExists THEN 404
    ELSE 200

\* get_result: the status code of GET /result/{id}.
GetResultCode(id, fileExists) ==
    IF id \notin DOMAIN JOBS THEN 404
    ELSE IF JOBS[id].status # "completed" THEN 400
    ELSE IF ~fileExists THEN 404
    ELSE 200

\* delete_job: the status code of DELETE /job/{id}.
DeleteJobCode(id) ==
    IF id \notin DOMAIN JOBS THEN 404
    ELSE IF JOBS[id].status = "running" THEN 400
    ELSE 200

\* The service is followed until the run leaves its try block.
Observed == pc \notin {"finally", "done"}

\* run_demucs_job up to its first await: the entry is marked running; the
\* task ends with KeyError when the entry is gone.
TaskStart ==
    \E t \in tasks :
      /\ Observed
      /\ t.phase = "queued"
      /\ IF t.job \in DOMAIN JOBS
           THEN /\ JOBS' = [JOBS EXCEPT ![t.job].status = "running"]
                /\ tasks' = (tasks \ {t}) \cup {[t EXCEPT !.phase = "running"]}
           ELSE /\ tasks' = tasks \ {t}
                /\ UNCHANGED JOBS
      /\ UNCHANGED <<batchVars, rankVars, runVars, nextTid, modelsReady, logLen>>

\* How the subprocess of a task ends, and the entry written for it.
TaskOutcomes == {"rc0", "rc1", "rc1_silent", "spawn_error"}
FinalEntry(out) ==
    CASE out = "rc0" -> Entry("completed", "none")
      [] out = "rc1" -> Entry("failed", "stdout")
      [] out = "rc1_silent" -> Entry("failed", "Unknown error")
      [] OTHER -> Entry("failed", "spawn error")

\* run_demucs_job from the subprocess to its end: the terminal status is
\* written; a missing entry is a KeyError that ends the task.
TaskFinish ==
    \E t \in tasks, out \in TaskOutcomes :
      /\ Observed
      /\ t.phase = "running"
      /\ tasks' = tasks \ {t}
      /\ IF t.job \in DOMAIN JOBS
           THEN JOBS' = [JOBS EXCEPT ![t.job] = FinalEntry(out)]
           ELSE UNCHANGED JOBS
      /\ UNCHANGED <<batchVars, rankVars, runVars, nextTid, modelsReady, logLen>>

\* The model archive has been extracted: MODELS_READY_FILE exists from now on.
ModelsExtracted ==
    /\ Observed
    /\ ~modelsReady
    /\ modelsReady' = TRUE
    /\ UNCHANGED <<batchVars, rankVars, runVars, JOBS, tasks, nextTid, logLen>>

\* The running job writes one more byte to its log.
LogAppend ==
    /\ Observed
    /\ \E t \in tasks : t.phase = "running"
    /\ logLen < MaxLog
    /\ logLen' = logLen + 1
    /\ UNCHANGED <<batchVars, rankVars, runVars, JOBS, tasks, nextTid, modelsReady>>

\* GET /job/{id}/logs?offset=N: the bytes after N and the offset of the end.
LogsReply(offset) == [n |-> logLen - offset, offset |-> logLen]

\* ------------------------------------------------------------- job submit
\* Mutant: a failed submit is tried again.
AfterSubmitFailure_retry(e) ==
    /\ firstError' = First(e)
    /\ UNCHANGED <<exc, pc>>

\* requests.post / raise_for_status raised in create_job: nothing catches it
\* before the finally clause of cmd_separate.
AfterSubmitFailure(e) == RaiseInTry(e)

\* demucs.create_job: one POST /job; any failure raises.
SubmitJob ==
    /\ pc = "submit"
    /\ calls' = calls \cup {"submit"}
    /\ submitCalls' = submitCalls + 1
    /\ \/ /\ AfterSubmitFailure(Exc("TransportError", 0, "submit"))
          /\ UNCHANGED <<job_id, elapsed, log_offset, stream_logs, JOBS,
                         tasks, nextTid>>
       \/ /\ create_job(FreshId)
          /\ IF CreateJobCode(FreshId) = 200
               THEN /\ job_id' = FreshId
                    /\ pc' = "wait_job"
                    /\ elapsed' = 0
                    /\ log_offset' = 0
                    /\ stream_logs' = (provider = "vast")
                    /\ UNCHANGED <<exc, firstError>>
               ELSE /\ AfterSubmitFailure(Exc("HTTPError", 0, "submit"))
                    /\ UNCHANGED <<job_id, elapsed, log_offset, stream_logs>>
    /\ UNCHANGED <<destroyReply, probeFailed, fetchFailed,
                   provider, keep, nOffers, idx, createLog, instance,
                   readyObs, api_url, modelPolls, statusReady, jobSeen,
                   sentOffsets, emitted, destroyCalls, downloaded, teardownFailed,
                   modelsReady, logLen, rankVars,
                   batchVars>>

\* --------------------------------------------------------------- job wait
\* Mutant: the cursor is not advanced after a fetch.
NextOffset_stuck(off, reply) == off

\* wait_for_job, lines 424-427: the cursor after a log fetch inside the loop.
NextOffset(off, reply) == IF reply.n > 0 THEN reply.offset ELSE off

\* What leaves the job wait when the service reports the job failed.
JobFailedExc == Exc("Exception", 0, JOBS[job_id].error)

\* One iteration of the polling loop of wait_for_job: the status poll, for
\* Vast the log fetch (fok: the fetch did not raise), then return, raise or
\* sleep.
JobPoll ==
    /\ pc = "wait_job"
    /\ elapsed < JobTimeout
    /\ \/ /\ RaiseInTry(Exc("TransportError", 0, "job status"))
          /\ calls' = calls \cup {"job_poll"}
          /\ UNCHANGED <<jobSeen, sentOffsets, emitted, log_offset,
                         stream_logs, elapsed, fetchFailed>>
       \/ /\ GetJobCode(job_id) = 200
          /\ \E fok \in BOOLEAN, d \in Steps :
               LET st == JOBS[job_id].status
                   reply == LogsReply(log_offset)
                   got == stream_logs /\ fok
               IN
               /\ jobSeen' = st
               /\ fetchFailed' = (fetchFailed \/ (stream_logs /\ ~fok))
               /\ calls' = calls \cup {"job_poll"}
                             \cup (IF stream_logs THEN {"logs"} ELSE {})
               /\ sentOffsets' = IF stream_logs
                                   THEN Append(sentOffsets, log_offset)
                                   ELSE sentOffsets
               /\ emitted' = IF got /\ reply.n > 0
                               THEN Append(emitted,
                                           <<log_offset, log_offset + reply.n>>)
                               ELSE emitted
               /\ IF st \in {"completed", "failed"}
                    THEN /\ IF stream_logs /\ ~fok
                              THEN RaiseInTry(Exc("HTTPError", 0, "logs"))
                              ELSE IF st = "failed"
                              THEN RaiseInTry(JobFailedExc)
                              ELSE /\ pc' = "download"
                                   /\ UNCHANGED <<exc, firstError>>
                         /\ UNCHANGED <<log_offset, stream_logs, elapsed>>
                    ELSE /\ log_offset' = IF got
                                            THEN NextOffset(log_offset, reply)
                                            ELSE log_offset
                         /\ stream_logs' = got
                         /\ elapsed' = elapsed + d
                         /\ UNCHANGED <<pc, exc, firstError>>
    /\ UNCHANGED <<submitCalls, destroyReply, probeFailed,
                   provider, keep, nOffers, idx, createLog, instance,
                   readyObs, api_url, modelPolls, statusReady, job_id,
                   destroyCalls, downloaded, teardownFailed, svcVars, rankVars,
                   batchVars>>

\* Mutant: the deadline of the job wait is reported as a failed job.
JobTimeoutExc_failed == Exc("Exception", 0, "Job failed")

\* What leaves the job wait when its deadline has passed.
JobTimeoutExc ==
    IF provider = "vast" THEN Exc("Exception", 0, "Job timeout")
                         ELSE Exc("TimeoutError", 0, "Job did not complete")

\* The deadline check of the job loop fails.
JobTimedOut ==
    /\ pc = "wait_job"
    /\ elapsed >= JobTimeout
    /\ RaiseInTry(JobTimeoutExc)
    /\ UNCHANGED <<submitCalls, destroyReply, probeFailed, fetchFailed,
                   provider, keep, nOffers, idx, createLog, instance, elapsed,
                   readyObs, api_url, modelPolls, statusReady, job_id,
                   jobSeen, log_offset, stream_logs, sentOffsets, emitted,
                   calls, destroyCalls, downloaded, teardownFailed, svcVars, rankVars,
                   batchVars>>

\* --------------------------------------------------------------- download
\* demucs.download_result: GET /result/{job_id}; any failure raises.
Download ==
    /\ pc = "download"
    /\ calls' = calls \cup {"download"}
    /\ \/ /\ RaiseInTry(Exc("TransportError", 0, "result"))
          /\ UNCHANGED downloaded
       \/ \E fileExists \in BOOLEAN :
            IF GetResultCode(job_id, fileExists) = 200
              THEN /\ downloaded' = TRUE
                   /\ pc' = "finally"
                   /\ UNCHANGED <<exc, firstError>>
              ELSE /\ RaiseInTry(Exc("HTTPError", 0, "result"))
                   /\ UNCHANGED downloaded
    /\ UNCHANGED <<submitCalls, destroyReply, probeFailed, fetchFailed,
                   provider, keep, nOffers, idx, createLog, instance, elapsed,
                   readyObs, api_url, modelPolls, statusReady, job_id,
                   jobSeen, log_offset, stream_logs, sentOffsets, emitted,
                   destroyCalls, teardownFailed, svcVars, rankVars,
                   batchVars>>

\* --------------------------------------------------------------- teardown
\* Whether a failed destroy call raises: stop_pod raises, destroy_instance
\* prints the error and returns False.
TeardownRaises == provider = "runpod"

\* What the marketplace answers a destroy call: done, no such instance (it
\* was destroyed before), or another failure.
DestroyReplies == {"success", "not_found", "error"}

\* The destroy call counts as done: destroy_instance returns
\* result.get("success", False) when the request did not raise; stop_pod
\* returns True when the reply holds no "errors".
DestroyOk(reply) == reply = "success"

\* Mutant: the keep flag is not looked at.
KeepInstance_ignored == FALSE

\* args.keep_instance / args.keep_pod.
KeepInstance == keep

\* The finally clause of cmd_separate: unless the keep flag is set, one
\* destroy call.
Finally ==
    /\ pc = "finally"
    /\ pc' = "done"
    /\ IF KeepInstance
         THEN UNCHANGED <<exc, firstError, destroyCalls, teardownFailed, calls,
                          destroyReply>>
         ELSE \E reply \in DestroyReplies :
                LET ok == DestroyOk(reply) IN
                /\ destroyCalls' = destroyCalls + 1
                /\ destroyReply' = reply
                /\ calls' = calls \cup {"destroy"}
                /\ teardownFailed' = ~ok
                /\ IF ~ok /\ TeardownRaises
                     THEN /\ exc' = Exc("TeardownError", instance, "stop_pod")
                          /\ firstError' =
                               First(Exc("TeardownError", instance, "stop_pod"))
                     ELSE UNCHANGED <<exc, firstError>>
    /\ UNCHANGED <<submitCalls, probeFailed, fetchFailed,
                   provider, keep, nOffers, idx, createLog, instance, elapsed,
                   readyObs, api_url, modelPolls, statusReady, job_id,
                   jobSeen, log_offset, stream_logs, sentOffsets, emitted,
                   downloaded, svcVars, rankVars,
                   batchVars>>

\* ------------------------------------------------------------------ Next
Next ==
    \/ Start
    \/ TryCreate
    \/ EnterTry
    \/ Interrupt
    \/ ReadyPoll
    \/ ReadyTimedOut
    \/ ModelsCheck
    \/ ModelsPoll
    \/ SubmitJob
    \/ JobPoll
    \/ JobTimedOut
    \/ Download
    \/ Finally
    \/ TaskStart
    \/ TaskFinish
    \/ ModelsExtracted
    \/ LogAppend

Spec == Init /\ [][Next]_vars

\* ------------------------------------------------- the service on its own
\* POST /job asking for job id `id`; the first MaxSubmits accepted requests
\* are followed.
ClientPost(id) ==
    /\ nextTid <= MaxSubmits
    /\ create_job(id)
    /\ UNCHANGED <<batchVars, rankVars, runVars, modelsReady, logLen>>

\* delete_job: DELETE /job/{id} removes an entry that is not running.
ClientDelete(id) ==
    /\ IF DeleteJobCode(id) = 200
         THEN JOBS' = [j \in DOMAIN JOBS \ {id} |-> JOBS[j]]
         ELSE UNCHANGED JOBS
    /\ UNCHANGED <<batchVars, rankVars, runVars, tasks, nextTid, modelsReady, logLen>>

ServerInit ==
    /\ provider = "vast"
    /\ keep = FALSE
    /\ nOffers = 0
    /\ RunRest
    /\ SvcInit
    /\ RankIdle
    /\ BatchIdle

ServerNext ==
    \/ \E id \in JobIds : ClientPost(id)
    \/ \E id \in JobIds : ClientDelete(id)
    \/ TaskStart
    \/ TaskFinish
    \/ ModelsExtracted

ServerSpec == ServerInit /\ [][ServerNext]_vars

\* ======================================================== claims C1..C10
\* Remote calls on the service of the instance.
JobOps == {"status", "submit", "job_poll", "logs", "download"}

\* C1: in a run that created an instance and whose keep flag is not set,
\* every way the run ends (success, job failure, timeout, exception, user
\* interrupt) has issued the destroy call exactly once.
C1_DestroyExactlyOnce ==
    /\ destroyCalls <= 1
    /\ (pc = "done" /\ instance # 0 /\ ~keep) => destroyCalls = 1

\* C2: when a run failed with a fatal error and the destroy call then failed
\* too, the error that leaves the run is the first fatal error.
C2_FirstErrorReported ==
    (pc = "done" /\ teardownFailed
        /\ firstError.kind \notin {"none", "KeyboardInterrupt", "TeardownError"})
    => exc = firstError

\* The create calls 1..k-1 failed with capacity-unavailable and call k succeeded.
FallbackAt(k) ==
    /\ k \in 1..Len(createLog)
    /\ createLog[k].outcome = CreateOk
    /\ \A i \in 1..(k - 1) : IsCapacityMsg(createLog[i].outcome)

\* C3: when offers 1..k-1 fail with capacity-unavailable and offer k succeeds,
\* exactly k create calls are made, on the offers 1..k in ranked order, none
\* follows the success, and the run holds the instance created from offer k.
C3_ProvisioningFallback ==
    \A k \in 1..Len(createLog) :
        FallbackAt(k) =>
            /\ Len(createLog) = k
            /\ \A i \in 1..k : createLog[i].offer = i
            /\ instance = InstanceOf(k)

C3_Witness ==
    /\ FallbackAt(2)
    /\ pc = "wait_ready"
    /\ instance = InstanceOf(2)

\* C4: a create failure that is not capacity-unavailable is the last create
\* call of the run.
C4_HardFailAborts ==
    \A i \in 1..Len(createLog) :
        (createLog[i].outcome # CreateOk /\ ~IsCapacityMsg(createLog[i].outcome))
        => Len(createLog) = i

\* The ranked list is empty, or each of its offers failed with
\* capacity-unavailable.
NoCapacityCase ==
    \/ nOffers = 0 /\ "offers" \in calls /\ exc.text # "gpuTypes"
    \/ /\ nOffers > 0
       /\ Len(createLog) = nOffers
       /\ \A i \in 1..nOffers : IsCapacityMsg(createLog[i].outcome)

\* C5: with an empty ranked list, or with every offer failing with
\* capacity-unavailable, the run ends by sys.exit(1) (unless interrupted
\* first), holds no instance and has issued no readiness poll, no call on the
\* service and no destroy call.
C5_NoCapacity ==
    NoCapacityCase =>
        /\ pc = "done"
        /\ exc.kind \in {"SystemExit", "KeyboardInterrupt"}
        /\ (firstError.kind # "KeyboardInterrupt" => exc.kind = "SystemExit")
        /\ instance = 0
        /\ calls \subseteq {"offers", "create"}
        /\ destroyCalls = 0

C5_Witness ==
    /\ NoCapacityCase
    /\ nOffers = 2
    /\ exc.kind = "SystemExit"

\* C6: the readiness wait returns an endpoint only from a poll that saw the
\* instance running, a port mapping for the service port, and status 200 from
\* the health probe of that very host and port.
C6_ReadyOnlyWhenHealthy ==
    api_url # 0 =>
        /\ readyObs.status \in {"running", "RUNNING"}
        /\ readyObs.ep = api_url
        /\ readyObs.probed = api_url
        /\ readyObs.code = 200

\* The readiness wait was left because its deadline had passed.
ReadyWaitTimedOut ==
    /\ pc \in {"finally", "done"}
    /\ api_url = 0
    /\ elapsed >= ReadyTimeout
    /\ "ready_poll" \in calls
    /\ firstError.kind # "KeyboardInterrupt"

\* C7 as stated: after a readiness timeout the error is a Timeout error that
\* carries the instance id, no endpoint is returned and no job is submitted.
C7_TimeoutCarriesId ==
    ReadyWaitTimedOut =>
        /\ firstError.kind = "TimeoutError"
        /\ firstError.inst = instance
        /\ api_url = 0
        /\ "submit" \notin calls

\* C7 as amended: after a readiness timeout no endpoint is returned and no
\* job is submitted; RunPod raises TimeoutError naming the pod, while Vast
\* returns None and the run raises "Instance failed to start" without the id.
C7_ReadyTimeout ==
    ReadyWaitTimedOut =>
        /\ api_url = 0
        /\ job_id = 0
        /\ calls \cap JobOps = {}
        /\ IF provider = "runpod"
             THEN firstError = Exc("TimeoutError", instance, "not ready")
             ELSE firstError = Exc("Exception", 0, "Instance failed to start")

C7_Witness ==
    /\ ReadyWaitTimedOut
    /\ pc = "done"
    /\ provider = "runpod"
    /\ firstError.inst = InstanceOf(2)

\* The stages reached so far happened in order.
StagesInOrder ==
    /\ "ready_poll" \in calls => instance # 0 /\ "create" \in calls
    /\ calls \cap JobOps # {} =>
          /\ api_url # 0
          /\ readyObs.probed = api_url
          /\ readyObs.code = 200
    /\ calls \cap {"job_poll", "logs", "download"} # {} =>
          "submit" \in calls /\ job_id # 0
    /\ "download" \in calls => jobSeen = "completed"
    /\ destroyCalls > 0 => downloaded \/ firstError # NoExc

\* C8: creation precedes every readiness poll, a healthy endpoint precedes
\* every call on the service, submission precedes the job polls, the job is
\* seen completed before the result is requested, and the destroy call comes
\* last (after the download, or when the run is failing): no call follows it.
C8_StageOrder ==
    /\ []StagesInOrder
    /\ [][destroyCalls > 0 => calls' = calls /\ createLog' = createLog]_vars

C8_Witness ==
    /\ pc = "done"
    /\ downloaded
    /\ destroyCalls = 1
    /\ exc = NoExc

\* The end of the bytes printed so far.
EmittedEnd == IF emitted = <<>> THEN 0 ELSE emitted[Len(emitted)][2]

\* C10: over the log fetches of one job wait the offsets sent never decrease,
\* the byte ranges printed are disjoint and in order, and inside the loop the
\* cursor stands at the end of what was printed.
C10_LogCursor ==
    /\ \A i \in 1..(Len(sentOffsets) - 1) : sentOffsets[i] <= sentOffsets[i + 1]
    /\ \A i, j \in 1..Len(emitted) : i < j => emitted[i][2] <= emitted[j][1]
    /\ \A i \in 1..Len(emitted) : emitted[i][1] < emitted[i][2]
    /\ pc = "wait_job" /\ provider = "vast" => log_offset = EmittedEnd

C10_Witness ==
    /\ Len(emitted) = 2
    /\ emitted[1] = <<0, 1>>
    /\ emitted[2] = <<1, 2>>
    /\ Len(sentOffsets) >= 2

\* A step from status a to status b of one entry of the job table.
StatusStep(a, b) ==
    \/ a = b
    \/ <<a, b>> \in {<<"pending", "running">>, <<"running", "completed">>,
                     <<"running", "failed">>}

\* C9: the status of a job id enters the table as pending and then only moves
\* pending -> running -> completed or failed; a terminal status stays.
C9_JobStatusMachine ==
    [][\A id \in JobIds :
         /\ (id \notin DOMAIN JOBS /\ id \in DOMAIN JOBS')
              => JOBS'[id].status = "pending"
         /\ (id \in DOMAIN JOBS /\ id \in DOMAIN JOBS')
              => StatusStep(JOBS[id].status, JOBS'[id].status)]_vars

\* ======================================================= claims C11..C17
\* The poll of the job wait made exactly one log fetch.
OneLogFetch == Len(sentOffsets') = Len(sentOffsets) + 1

\* C11: a poll of the job wait that observes status completed makes one final
\* log fetch when streaming is enabled, and the wait then returns to its
\* caller, which goes on to the download, with no exception raised.
C11_CompletedReturns ==
    [][(pc = "wait_job" /\ jobSeen' = "completed")
         => /\ pc' = "download"
            /\ exc' = NoExc
            /\ stream_logs => OneLogFetch]_vars

\* C12: a poll of the job wait that observes status failed makes one final log
\* fetch when streaming is enabled, and the wait then raises an error whose
\* message is the error text the service reports for the job; no further
\* submit request is made.
C12_FailedRaises ==
    [][(pc = "wait_job" /\ jobSeen' = "failed")
         => /\ pc' = "finally"
            /\ exc' = Exc("Exception", 0, JOBS[job_id].error)
            /\ stream_logs => OneLogFetch
            /\ submitCalls' = submitCalls]_vars

\* The job wait was left because its deadline had passed.
JobWaitTimedOut ==
    /\ pc \in {"finally", "done"}
    /\ job_id # 0
    /\ elapsed >= JobTimeout
    /\ jobSeen \notin {"completed", "failed"}
    /\ firstError.kind # "KeyboardInterrupt"

\* An error that says the wait timed out.
IsTimeoutErr(e) == e.kind = "TimeoutError" \/ e.text = "Job timeout"

\* The remote calls a run issues; none cancels or deletes a job.
RunCalls == {"offers", "create", "ready_poll", "status", "submit", "job_poll",
             "logs", "download", "destroy"}

\* C13: when the job reaches no terminal state within the timeout, the job
\* wait raises a timeout error, the run has sent no cancel or delete request,
\* the job's entry is still on the service and no result was requested.
C13_JobTimeout ==
    JobWaitTimedOut =>
        /\ IsTimeoutErr(firstError)
        /\ calls \subseteq RunCalls
        /\ "download" \notin calls
        /\ job_id \in DOMAIN JOBS
        /\ submitCalls = 1

C13_Witness ==
    /\ JobWaitTimedOut
    /\ pc = "done"
    /\ provider = "vast"
    /\ JOBS[job_id].status = "running"

\* The submit request of the run failed.
SubmitFailed == firstError.text = "submit"

\* C14: a run issues at most one submit request; when it fails, for a
\* transport or a validation reason, the run holds no job, issues no status
\* poll, no log fetch and no result request, and goes to the finally clause,
\* whose destroy call is issued unless the keep flag is set or the user
\* interrupts the clause.
C14_SubmitOnce ==
    /\ submitCalls <= 1
    /\ SubmitFailed =>
          /\ job_id = 0
          /\ calls \cap {"job_poll", "logs", "download"} = {}
          /\ pc \in {"finally", "done"}
          /\ (pc = "done" /\ ~keep /\ exc.kind # "KeyboardInterrupt")
                => destroyCalls = 1

C14_Witness ==
    /\ SubmitFailed
    /\ firstError.kind = "HTTPError"
    /\ pc = "done"
    /\ destroyCalls = 1

\* C15: the run requests the result only after the job wait saw the job
\* completed, the service answers a result request with 200 only for a job
\* whose status is completed, and a result downloaded is that of a completed
\* job.
C15_ResultOnlyWhenCompleted ==
    /\ "download" \in calls => jobSeen = "completed"
    /\ \A id \in JobIds, fileExists \in BOOLEAN :
          GetResultCode(id, fileExists) = 200 =>
              id \in DOMAIN JOBS /\ JOBS[id].status = "completed"
    /\ downloaded => JOBS[job_id].status = "completed"

C15_Witness ==
    /\ downloaded
    /\ keep
    /\ pc = "done"
    /\ JOBS[job_id].status = "completed"

\* C16: a destroy call on an instance that is already destroyed is reported
\* as success: it is not counted as failed and raises nothing.
C16_DestroyIdempotent ==
    destroyReply = "not_found" =>
        /\ ~teardownFailed
        /\ exc.kind # "TeardownError"

\* C17: with the keep flag set, no destroy call is issued, however the run
\* ends.
C17_KeepSkipsDestroy ==
    keep =>
        /\ destroyCalls = 0
        /\ "destroy" \notin calls
        /\ destroyReply = "none"

C17_Witness ==
    /\ keep
    /\ pc = "done"
    /\ instance # 0
    /\ firstError.kind = "TimeoutError"

\* ============================================================== ranking
\* The first k elements of s: s[:k].
Take(s, k) == SubSeq(s, 1, IF Len(s) < k THEN Len(s) ELSE k)

\* list.sort(key=...): x is put behind every element whose key is not larger,
\* so that equal keys keep their order.
RECURSIVE InsertByPrice(_, _)
InsertByPrice(x, s) ==
    IF s = <<>> THEN <<x>>
    ELSE IF Head(s).price_per_hour <= x.price_per_hour
    THEN <<Head(s)>> \o InsertByPrice(x, Tail(s))
    ELSE <<x>> \o s

RECURSIVE SortByPrice(_)
SortByPrice(s) ==
    IF s = <<>> THEN <<>>
    ELSE InsertByPrice(s[Len(s)], SortByPrice(SubSeq(s, 1, Len(s) - 1)))

\* --------------------------------------------------------------- Vast.ai
\* How prices run along a catalog of n offers.
PricePatterns == {"asc", "desc", "flat", "unpriced"}
PriceAt(pattern, i, n) ==
    CASE pattern = "asc" -> i
      [] pattern = "desc" -> n + 1 - i
      [] pattern = "flat" -> 5
      [] OTHER -> 0

\* A catalog of n Vast offers: the offers lo..hi have reliability 0.80, the
\* others 0.95; the first offer has 4 GB of VRAM when `small`, the others 16.
VastCatalog(n, pattern, lo, hi, small) ==
    [i \in 1..n |->
        [id |-> i,
         gpu_ram |-> IF small /\ i = 1 THEN 4096 ELSE 16384,
         dph_total |-> PriceAt(pattern, i, n),
         reliability2 |-> IF lo <= i /\ i <= hi THEN 80 ELSE 95]]

\* The query of search_offers: "gpu_ram": {"gte": min_gpu_ram * 1024}.
VastQueryMatches(o) == o.gpu_ram >= MIN_VRAM_GB * 1024

\* The offer as search_offers formats it.
VastOffer(o) ==
    [id |-> o.id,
     gpu_ram |-> o.gpu_ram \div 1024,
     price_per_hour |-> o.dph_total,
     reliability |-> o.reliability2]

\* The reply to the query: the offers that match it, ordered as asked for,
\* "order": [["dph_total", "asc"]].
VastResponse(cat) ==
    LET matching == SelectSeq(cat, VastQueryMatches)
        priced == [i \in 1..Len(matching) |->
                     [offer |-> matching[i],
                      price_per_hour |-> matching[i].dph_total]]
        sorted == SortByPrice(priced)
    IN [i \in 1..Len(sorted) |-> sorted[i].offer]

\* search_offers: the first max_results offers of the reply, formatted.
search_offers(cat, max_results) ==
    LET first == Take(VastResponse(cat), max_results)
    IN [i \in 1..Len(first) |-> VastOffer(first[i])]

\* The reliability filter of get_ranked_offers.
IsReliable(o) == o.reliability >= MinReliability

\* get_ranked_offers(max_results).
get_ranked_offers(cat, max_results) ==
    LET offers == search_offers(cat, max_results * OverFetch)
        reliable == SelectSeq(offers, IsReliable)
    IN Take(SortByPrice(reliable), max_results)

\* ---------------------------------------------------------------- RunPod
\* A catalog of n GPU types.  A name is the set of the preferred models it
\* contains, each with the case it is written in: the name of the type at a
\* contains, in lower case, the preferred model 2, or the preferred model 1
\* when `twin`; that of the type at b the preferred model 1 as PREFERRED_GPUS
\* spells it.  The type at `small` has 4 GB of VRAM, the others 24.  With
\* pattern "unpriced" no type carries a price.
RunPodCatalog(n, pattern, a, b, small, twin) ==
    [i \in 1..n |->
        [id |-> i,
         names |-> (IF i = a THEN {<<IF twin THEN 1 ELSE 2, "lower">>} ELSE {})
                     \cup (IF i = b THEN {<<1, "listed">>} ELSE {}),
         memoryInGb |-> IF i = small THEN 4 ELSE 24,
         minimumBidPrice |-> IF pattern = "desc" THEN 0
                             ELSE PriceAt(pattern, i, n),
         uninterruptablePrice |-> IF pattern = "desc"
                                    THEN PriceAt(pattern, i, n) ELSE 0]]

\* Mutant: the VRAM of a GPU type is not looked at.
HasMinVram_any(gpu) == TRUE

\* gpu.get("memoryInGb", 0) >= MIN_VRAM_GB.
HasMinVram(gpu) == gpu.memoryInGb >= MIN_VRAM_GB

\* minimumBidPrice or uninterruptablePrice or 999 (0 and None are falsy).
RunPodPrice(gpu) ==
    IF gpu.minimumBidPrice # 0 THEN gpu.minimumBidPrice
    ELSE IF gpu.uninterruptablePrice # 0 THEN gpu.uninterruptablePrice
    ELSE DefaultPrice

\* The GPU type as get_available_gpus formats it.
RunPodGpu(gpu) ==
    [id |-> gpu.id,
     names |-> gpu.names,
     vram_gb |-> gpu.memoryInGb,
     price_per_hour |-> RunPodPrice(gpu)]

\* get_available_gpus: the types with enough VRAM, cheapest first.
get_available_gpus(cat) ==
    LET enough == SelectSeq(cat, HasMinVram)
    IN SortByPrice([i \in 1..Len(enough) |-> RunPodGpu(enough[i])])

\* The ids of the GPU types of a list.
IdsOf(s) == {s[i].id : i \in 1..Len(s)}

\* str.lower() of a name.
Lower(name) == {<<t[1], "lower">> : t \in name}

NameContains_caseSensitive(name, preferred) == <<preferred, "listed">> \in name

\* preferred.lower() in gpu["name"].lower(), for the preferred model at
\* position `preferred` of PREFERRED_GPUS.
NameContains(name, preferred) == <<preferred, "lower">> \in Lower(name)

\* The inner loop of get_ranked_gpus: the position in gpus[:10] of the first
\* type not yet ranked whose name contains the preferred model, 0 for none.
FirstMatch(gpus, preferred, used_ids) ==
    LET top == Take(gpus, TopK)
        hits == {i \in 1..Len(top) :
                    /\ NameContains(top[i].names, preferred)
                    /\ top[i].id \notin used_ids}
    IN IF hits = {} THEN 0
       ELSE CHOOSE i \in hits : \A j \in hits : i <= j

\* The outer loop of get_ranked_gpus, from the preferred model at position p.
RECURSIVE PullPreferred(_, _, _)
PullPreferred(gpus, p, rankedSoFar) ==
    IF p > NumPreferred THEN rankedSoFar
    ELSE LET hit == FirstMatch(gpus, p, IdsOf(rankedSoFar))
         IN PullPreferred(gpus, p + 1,
                          IF hit = 0 THEN rankedSoFar
                                     ELSE Append(rankedSoFar, gpus[hit]))

\* get_ranked_gpus(max_results).
get_ranked_gpus(cat, max_results) ==
    LET gpus == get_available_gpus(cat)
        pulled == PullPreferred(gpus, 1, <<>>)
        rest == SelectSeq(gpus, LAMBDA g : g.id \notin IdsOf(pulled))
    IN Take(pulled \o rest, max_results)

\* ------------------------------------------------- the ranking on its own
\* The catalogs the marketplace may hold when the ranking is asked for.
VastCatalogs ==
    {VastCatalog(n, pattern, lo, hi, small) :
        n \in 0..MaxRaw, pattern \in PricePatterns \ {"unpriced"},
        lo \in 1..(MaxRaw + 1), hi \in 0..MaxRaw, small \in BOOLEAN}

RunPodCatalogs ==
    {RunPodCatalog(n, pattern, a, b, small, twin) :
        n \in 0..MaxGpus, pattern \in PricePatterns,
        a \in 0..MaxGpus, b \in 0..MaxGpus, small \in 0..MaxGpus,
        twin \in BOOLEAN}

RankInit ==
    /\ provider \in {"vast", "runpod"}
    /\ keep = FALSE
    /\ nOffers = 0
    /\ RunRest
    /\ JOBS = <<>>
    /\ tasks = {}
    /\ nextTid = 1
    /\ modelsReady = FALSE
    /\ logLen = 0
    /\ catalog \in (IF provider = "vast" THEN VastCatalogs ELSE RunPodCatalogs)
    /\ ranked = <<>>
    /\ rankPc = "query"
    /\ BatchIdle

\* vastai.get_ranked_offers(max_results=10) of cmd_separate.
RankVast ==
    /\ rankPc = "query"
    /\ provider = "vast"
    /\ ranked' = get_ranked_offers(catalog, MaxResults)
    /\ rankPc' = "ranked"
    /\ UNCHANGED <<runVars, svcVars, batchVars, catalog>>

\* runpod.get_ranked_gpus(max_results=10) of cmd_separate.
RankRunPod ==
    /\ rankPc = "query"
    /\ provider = "runpod"
    /\ ranked' = get_ranked_gpus(catalog, MaxResults)
    /\ rankPc' = "ranked"
    /\ UNCHANGED <<runVars, svcVars, batchVars, catalog>>

RankNext == RankVast \/ RankRunPod

RankSpec == RankInit /\ [][RankNext]_vars

\* ======================================================= claims C18..C20
\* The offers of the catalog as the client formats them, in catalog order.
Candidates ==
    [i \in 1..Len(catalog) |->
        IF provider = "vast" THEN VastOffer(catalog[i])
                             ELSE RunPodGpu(catalog[i])]

\* The filters of the ranking: minimum VRAM and, for Vast, whose offers alone
\* carry a reliability, minimum reliability.
PassesFilters(o) ==
    IF provider = "vast"
      THEN o.gpu_ram >= MIN_VRAM_GB /\ o.reliability >= MinReliability
      ELSE o.vram_gb >= MIN_VRAM_GB

\* The positions in the catalog of the offers that pass the filters.
Passing == {i \in 1..Len(catalog) : PassesFilters(Candidates[i])}

\* Offer i comes before offer j in ascending price order, ties in input order.
Before(i, j) ==
    \/ Candidates[i].price_per_hour < Candidates[j].price_per_hour
    \/ /\ Candidates[i].price_per_hour = Candidates[j].price_per_hour
       /\ i < j

\* The place of offer i among the passing offers in that order.
RankOf(i) == Cardinality({j \in Passing : Before(j, i)}) + 1

\* The offer is among the cheapest K passing offers.
InCheapestK(o) ==
    Cardinality({j \in Passing :
                    Candidates[j].price_per_hour < o.price_per_hour}) < TopK

NoPreferredInTopK ==
    provider = "runpod" =>
        \A i \in Passing : RankOf(i) <= TopK => Candidates[i].names = {}

\* The passing offers in ascending price order, ties in input order, cut to
\* max_results.
ExpectedIds ==
    LET len == IF Cardinality(Passing) < MaxResults THEN Cardinality(Passing)
                                                    ELSE MaxResults
    IN [k \in 1..len |-> Candidates[CHOOSE i \in Passing : RankOf(i) = k].id]

\* C20: when no offer among the cheapest K matches a preferred model, the
\* ranked output is exactly the offers that pass the filters, in ascending
\* price order with equal prices in input order, cut to max_results.
C20_PlainRanking ==
    (rankPc = "ranked" /\ NoPreferredInTopK) =>
        [k \in 1..Len(ranked) |-> ranked[k].id] = ExpectedIds

\* ---------------------------------------------------------------------
\* The batch launcher and the destroy-all pass
\* (test_concurrent_instances.py).  One process runs at a time: a launcher
\* run or a destroy-all pass; the registry file and the marketplace outlive
\* the processes.
\* ---------------------------------------------------------------------

MaxBatch == 3
MaxList == 2
\* The launcher runs followed: a run and a later one.
LauncherRuns == {1, 2}

NextOffer_noWrap(offers, index) ==
    offers[IF index < Len(offers) THEN index + 1 ELSE Len(offers)]

\* get_next_offer, line 51: the offer at offer_index % len(available_offers).
NextOffer(offers, index) == offers[(index % Len(offers)) + 1]

LaunchCounts_failureLost(ok, s, f) == IF ok THEN <<s + 1, f>> ELSE <<s, f>>

\* launch_instance, lines 75 and 90: success_count and fail_count after an
\* attempt that ran to its end.
LaunchCounts(ok, s, f) == IF ok THEN <<s + 1, f>> ELSE <<s, f + 1>>

\* save_instances: the file is opened with 'w' and holds self.instances.
save_instances == [exists |-> TRUE, list |-> instances, whole |-> TRUE]

\* save_instances, line 95: open(INSTANCES_FILE, 'w') empties the file
\* before json.dump writes anything; until the dump has ended the file
\* holds no list, or a part of the text of one.
Truncated(f) == [exists |-> TRUE, list |-> <<>>, whole |-> FALSE]

\* The ids of the records in the file.
FileIds == {regFile.list[k].id : k \in 1..Len(regFile.list)}

\* The instances the marketplace created for the launcher, and those of
\* them still alive: no destroy of them was confirmed.
Launched == 1..(nextId - 1)
Alive == Launched \ confirmed

\* main, line 229: InstanceTester(num_instances) fetches the offer list once
\* and raises when it is empty; the exception leaves main.  The locals of an
\* earlier process are gone.
LaunchStart ==
    /\ bpc = "idle"
    /\ runs + 1 \in LauncherRuns
    /\ runs' = runs + 1
    /\ apiKey' = TRUE
    /\ \E n \in 0..MaxBatch, len \in 0..MaxList :
         /\ num_instances' = n
         /\ available_offers' = [k \in 1..len |-> k]
         /\ bpc' = IF len = 0 THEN "idle" ELSE "loop"
         /\ ended' = IF len = 0 THEN "no_offers" ELSE "running"
    /\ queries' = 1
    /\ offer_index' = 0
    /\ success_count' = 0
    /\ fail_count' = 0
    /\ instances' = <<>>
    /\ launchI' = 0
    /\ inflight' = 0
    /\ attempts' = <<>>
    /\ created' = {}
    /\ destroyList' = <<>>
    /\ destroyIdx' = 1
    /\ success' = 0
    /\ failed' = 0
    /\ passReplies' = <<>>
    /\ UNCHANGED <<regFile, nextId, confirmed, recorded>>
    /\ UNCHANGED <<runVars, svcVars, rankVars>>

\* launch_instance, lines 57-67, up to the create request being with the
\* marketplace, which creates the instance (made) or refuses.
LaunchRequest ==
    /\ bpc = "loop"
    /\ launchI < num_instances
    /\ attempts' = Append(attempts, NextOffer(available_offers, offer_index))
    /\ offer_index' = offer_index + 1
    /\ \E made \in BOOLEAN :
         IF made
           THEN /\ inflight' = nextId
                /\ nextId' = nextId + 1
                /\ created' = created \cup {nextId}
           ELSE /\ inflight' = 0
                /\ UNCHANGED <<nextId, created>>
    /\ bpc' = "in_call"
    /\ UNCHANGED <<num_instances, available_offers, success_count, fail_count,
                   instances, launchI, queries, regFile, confirmed, recorded,
                   destroyList, destroyIdx, success, failed, passReplies,
                   ended, runs, apiKey>>
    /\ UNCHANGED <<runVars, svcVars, rankVars>>

\* launch_instance, lines 76-83: the record of a launched instance (the
\* fields the launcher prints only are left out).
instance_info(index, id, offer) ==
    [index |-> index, id |-> id, offer_id |-> offer]

\* Mutant: a record is appended for every attempt.
AppendRecord_always(ok, list, info) == Append(list, info)

\* launch_instance, lines 72-84 and 88-91: the record is appended on the path
\* that counted a success, and on no other.
AppendRecord(ok, list, info) == IF ok THEN Append(list, info) ELSE list

\* launch_instance, lines 67-91: create_instance returns the new instance
\* (delivered) or raises, when the marketplace refused or its reply did not
\* arrive; the exception is caught at line 88.
LaunchReturn ==
    /\ bpc = "in_call"
    /\ \E delivered \in (IF inflight # 0 THEN BOOLEAN ELSE {FALSE}) :
         LET ok == inflight # 0 /\ delivered
             counts == LaunchCounts(ok, success_count, fail_count) IN
         /\ success_count' = counts[1]
         /\ fail_count' = counts[2]
         /\ instances' = AppendRecord(ok, instances,
                                      instance_info(launchI, inflight,
                                                    attempts[Len(attempts)]))
    /\ launchI' = launchI + 1
    /\ inflight' = 0
    /\ bpc' = "loop"
    /\ UNCHANGED <<num_instances, available_offers, offer_index, attempts,
                   queries, created, regFile, nextId, confirmed, recorded,
                   destroyList, destroyIdx, success, failed, passReplies,
                   ended, runs, apiKey>>
    /\ UNCHANGED <<runVars, svcVars, rankVars>>

\* run, lines 115-154, after the loop: with no attempt the percentage of
\* line 120 divides by zero; with no success run returns at 127; otherwise
\* save_instances is entered at 148 and opens the file for writing.
LaunchEnd ==
    /\ bpc = "loop"
    /\ launchI = num_instances
    /\ IF success_count = 0
         THEN /\ bpc' = "idle"
              /\ ended' = IF num_instances = 0 THEN "crashed" ELSE "launched"
              /\ UNCHANGED regFile
         ELSE /\ bpc' = "saving"
              /\ regFile' = Truncated(regFile)
              /\ UNCHANGED ended
    /\ UNCHANGED recorded
    /\ UNCHANGED <<num_instances, available_offers, offer_index,
                   success_count, fail_count, instances, launchI, inflight,
                   attempts, queries, created, nextId, confirmed, destroyList,
                   destroyIdx, success, failed, passReplies, runs, apiKey>>
    /\ UNCHANGED <<runVars, svcVars, rankVars>>

\* KeyboardInterrupt during tester.run(), main lines 233-238, the save of
\* line 148 included: save_instances is entered when self.instances is not
\* empty, and opens the file for writing.
LaunchInterrupt ==
    /\ bpc \in {"loop", "in_call", "saving"}
    /\ inflight' = 0
    /\ IF instances = <<>>
         THEN /\ bpc' = "idle"
              /\ ended' = "interrupted"
              /\ UNCHANGED regFile
         ELSE /\ bpc' = "saving_handler"
              /\ regFile' = Truncated(regFile)
              /\ UNCHANGED ended
    /\ UNCHANGED recorded
    /\ UNCHANGED <<num_instances, available_offers, offer_index,
                   success_count, fail_count, instances, launchI,
                   attempts, queries, created, nextId, confirmed, destroyList,
                   destroyIdx, success, failed, passReplies, runs, apiKey>>
    /\ UNCHANGED <<runVars, svcVars, rankVars>>

\* save_instances, line 96: json.dump has written the whole list and the
\* file is closed; run goes on to its last prints, the handler of main to
\* its own.
SaveWritten ==
    /\ bpc \in {"saving", "saving_handler"}
    /\ regFile' = save_instances
    /\ recorded' = recorded \cup {instances[k].id : k \in 1..Len(instances)}
    /\ bpc' = "idle"
    /\ ended' = IF bpc = "saving" THEN "launched" ELSE "interrupted"
    /\ UNCHANGED <<num_instances, available_offers, offer_index,
                   success_count, fail_count, instances, launchI, inflight,
                   attempts, queries, created, nextId, confirmed, destroyList,
                   destroyIdx, success, failed, passReplies, runs, apiKey>>
    /\ UNCHANGED <<runVars, svcVars, rankVars>>

\* KeyboardInterrupt during the save_instances of the handler of main, line
\* 237: nothing catches it, the process ends and the file stays as it is.
SaveInterrupt ==
    /\ bpc = "saving_handler"
    /\ bpc' = "idle"
    /\ ended' = "save_interrupted"
    /\ UNCHANGED <<num_instances, available_offers, offer_index,
                   success_count, fail_count, instances, launchI, inflight,
                   attempts, queries, created, regFile, nextId, confirmed,
                   recorded, destroyList, destroyIdx, success, failed,
                   passReplies, runs, apiKey>>
    /\ UNCHANGED <<runVars, svcVars, rankVars>>

PassSkips_never(f, key) == FALSE

\* destroy_all_instances, lines 164-165: json.load raises JSONDecodeError on
\* a file whose text is not a complete JSON value.
LoadRaises(f, key) == key /\ f.exists /\ ~f.whole

\* destroy_all_instances, lines 159-177: the early returns, and the
\* exception of json.load, which has an incomplete file read as no list.
PassSkips(f, key) == ~f.exists \/ f.list = <<>> \/ ~key

\* destroy_all_instances, lines 157-182: key tells whether VASTAI_API_KEY
\* is set.  The fields of an earlier launcher are gone.
DestroyAllStart ==
    /\ bpc = "idle"
    /\ \E key \in BOOLEAN :
         /\ apiKey' = key
         /\ IF PassSkips(regFile, key)
              THEN /\ destroyList' = <<>>
                   /\ bpc' = "idle"
                   /\ ended' = IF LoadRaises(regFile, key) THEN "crashed"
                                ELSE "pass_skipped"
              ELSE /\ destroyList' = regFile.list
                   /\ bpc' = "pass"
                   /\ ended' = "running"
    /\ destroyIdx' = 1
    /\ success' = 0
    /\ failed' = 0
    /\ passReplies' = <<>>
    /\ num_instances' = 0
    /\ available_offers' = <<>>
    /\ offer_index' = 0
    /\ success_count' = 0
    /\ fail_count' = 0
    /\ instances' = <<>>
    /\ launchI' = 0
    /\ attempts' = <<>>
    /\ queries' = 0
    /\ created' = {}
    /\ UNCHANGED <<inflight, regFile, nextId, confirmed, recorded, runs>>
    /\ UNCHANGED <<runVars, svcVars, rankVars>>

\* What the marketplace answers a destroy call for instance id.
PassReplyChoices(id) ==
    IF id \in Alive THEN {"success", "error"} ELSE {"not_found", "error"}

\* destroy_instance catches every exception and returns False (lines
\* 258-259), and the records save_instances writes hold 'id' and 'index':
\* nothing raises inside the try block of the pass.
DestroyRaises == FALSE

\* destroy_all_instances, lines 191 and 194: the tallies after one record.
PassTally(raised, s, f) == IF raised THEN <<s, f + 1>> ELSE <<s + 1, f>>

PassOver_onFailure ==
    \/ destroyIdx > Len(destroyList)
    \/ \E k \in 1..Len(passReplies) : ~DestroyOk(passReplies[k].reply)

\* for inst in instances, line 184: the loop has gone through the list.
PassOver == destroyIdx > Len(destroyList)

\* destroy_all_instances, lines 184-194: one record of the list.
DestroyOne ==
    /\ bpc = "pass"
    /\ ~PassOver
    /\ \E reply \in PassReplyChoices(destroyList[destroyIdx].id) :
         LET tally == PassTally(DestroyRaises, success, failed) IN
         /\ passReplies' = Append(passReplies,
                                   [id |-> destroyList[destroyIdx].id,
                                    reply |-> reply])
         /\ confirmed' = IF DestroyOk(reply)
                           THEN confirmed \cup {destroyList[destroyIdx].id}
                           ELSE confirmed
         /\ success' = tally[1]
         /\ failed' = tally[2]
    /\ destroyIdx' = destroyIdx + 1
    /\ UNCHANGED <<bpc, num_instances, available_offers, offer_index,
                   success_count, fail_count, instances, launchI, inflight,
                   attempts, queries, created, regFile, nextId, recorded,
                   destroyList, ended, runs, apiKey>>
    /\ UNCHANGED <<runVars, svcVars, rankVars>>

\* destroy_all_instances, lines 196-203: os.remove(INSTANCES_FILE).
DestroyAllEnd ==
    /\ bpc = "pass"
    /\ PassOver
    /\ regFile' = NoFile
    /\ bpc' = "idle"
    /\ ended' = "pass_done"
    /\ UNCHANGED <<num_instances, available_offers, offer_index,
                   success_count, fail_count, instances, launchI, inflight,
                   attempts, queries, created, nextId, confirmed, recorded,
                   destroyList, destroyIdx, success, failed, passReplies,
                   runs, apiKey>>
    /\ UNCHANGED <<runVars, svcVars, rankVars>>

\* KeyboardInterrupt during the pass: nothing catches it, the file stays.
DestroyInterrupt ==
    /\ bpc = "pass"
    /\ bpc' = "idle"
    /\ ended' = "pass_interrupted"
    /\ UNCHANGED <<num_instances, available_offers, offer_index,
                   success_count, fail_count, instances, launchI, inflight,
                   attempts, queries, created, regFile, nextId, confirmed,
                   recorded, destroyList, destroyIdx, success, failed,
                   passReplies, runs, apiKey>>
    /\ UNCHANGED <<runVars, svcVars, rankVars>>

\* The file a process may find: none, or one holding an empty list.
BatchInit ==
    /\ provider = "vast"
    /\ keep = FALSE
    /\ nOffers = 0
    /\ RunRest
    /\ JOBS = <<>>
    /\ tasks = {}
    /\ nextTid = 1
    /\ modelsReady = FALSE
    /\ logLen = 0
    /\ RankIdle
    /\ BatchRest
    /\ regFile \in {NoFile, [exists |-> TRUE, list |-> <<>>, whole |-> TRUE]}

BatchNext ==
    \/ LaunchStart
    \/ LaunchRequest
    \/ LaunchReturn
    \/ LaunchEnd
    \/ LaunchInterrupt
    \/ SaveWritten
    \/ SaveInterrupt
    \/ DestroyAllStart
    \/ DestroyOne
    \/ DestroyAllEnd
    \/ DestroyInterrupt

BatchSpec == BatchInit /\ [][BatchNext]_vars

\* ---------------------------------------------------------------------
\* Claims C21..C30.
\* ---------------------------------------------------------------------

\* The launcher's fields are those of a run: one is under way or has just
\* ended, and no later process has started.
OfARun == queries = 1 /\ available_offers # <<>>

\* C21: the i-th launch attempt of a run (i = 0..N-1) asks for the offer at
\* index i mod L of the list of length L fetched once when the launcher
\* started; the index has advanced by one for every attempt made, whether it
\* succeeded or failed, and the list is neither fetched again nor changed
\* while the run lasts.
C21_RoundRobin ==
    /\ [](OfARun =>
            /\ offer_index = Len(attempts)
            /\ \A i \in 0..(Len(attempts) - 1) :
                 attempts[i + 1] =
                   available_offers[(i % Len(available_offers)) + 1])
    /\ [][(bpc \in {"loop", "in_call"})
            => /\ available_offers' = available_offers
               /\ queries' = queries]_vars

\* A batch longer than the list, with a failed and a successful attempt:
\* the third attempt wrapped to the first offer.
C21_Witness ==
    /\ OfARun
    /\ Len(available_offers) = 2
    /\ Len(attempts) = 3
    /\ attempts[3] = available_offers[1]
    /\ fail_count > 0
    /\ success_count > 0

\* C22: after each completed launch attempt success_count + fail_count is
\* the number of attempts made so far, and after a full batch of N attempts
\* it is N.
C22_LaunchAccounting ==
    /\ (bpc = "loop" \/ (bpc = "idle" /\ ended \in {"launched", "crashed"}))
         => success_count + fail_count = Len(attempts)
    /\ (bpc = "idle" /\ ended \in {"launched", "crashed"})
         => success_count + fail_count = num_instances

\* A full batch with both outcomes.
C22_Witness ==
    /\ bpc = "idle"
    /\ ended = "launched"
    /\ num_instances = MaxBatch
    /\ fail_count > 0
    /\ success_count > 0

\* A launcher run has just ended, by the end of its batch or by an
\* interrupt.
LauncherEnded == bpc = "idle" /\ ended \in {"launched", "interrupted"}

\* C23: whenever a launcher run ends, by the normal end of the batch or by
\* a user interrupt at any point, every instance the marketplace created for
\* that run has a record in the persisted file.
C23_LaunchedAreRecorded == LauncherEnded => created \subseteq FileIds

\* C24: the registry keeps the record of every launched instance until a
\* destroy of it is confirmed successful: whenever no launcher run and no
\* destroy-all pass is under way, an instance the launcher has recorded and
\* of which no destroy was confirmed successful has its record in the
\* persisted file; neither a destroy-all pass nor a later launcher run
\* removes the record of an instance that is still alive.
C24_RegistryInvariant ==
    bpc = "idle" =>
        \A id \in recorded : (id \notin confirmed) => (id \in FileIds)

\* A destroy-all pass has just run to its end.
PassDone == bpc = "idle" /\ ended = "pass_done"

\* The destroy calls of the pass that reported success, and those that did
\* not.
PassSucceeded == {k \in 1..Len(passReplies) : DestroyOk(passReplies[k].reply)}
PassFailed == {k \in 1..Len(passReplies) : ~DestroyOk(passReplies[k].reply)}

\* C25: a destroy-all pass deletes the persisted file only when every
\* recorded instance was destroyed successfully; when a destroy failed the
\* file is kept.
C25_FileKeptOnFailure == (PassDone /\ PassFailed # {}) => regFile.exists

\* C26: the destroy-all pass removes the persisted file only at the end of
\* a pass over a non-empty list that went through all its records, and then
\* it removes it whatever the destroy calls answered; a pass that finds no
\* file, an empty list or no credential leaves the file as it was; and a
\* destroy call is only issued with a file, a non-empty list and the
\* credential.
C26_FileRemoval ==
    [][/\ (regFile.exists /\ ~regFile'.exists)
          => (bpc = "pass" /\ destroyList # <<>>
                /\ Len(passReplies) = Len(destroyList))
       /\ (bpc = "pass" /\ ended' = "pass_done") => ~regFile'.exists
       /\ (ended' = "pass_skipped")
          => (regFile' = regFile /\ passReplies' = <<>>)
       /\ (bpc = "idle" /\ runs' = runs
             /\ (~regFile.exists \/ regFile.list = <<>> \/ ~apiKey'))
          => (bpc' = "idle" /\ regFile' = regFile /\ passReplies' = <<>>)
       /\ (Len(passReplies') > Len(passReplies))
          => (regFile.exists /\ regFile.list # <<>> /\ apiKey)]_vars

\* A pass with a failed destroy ran to its end and removed the file.
C26_Witness == PassDone /\ PassFailed # {} /\ ~regFile.exists

\* C27: in the destroy-all pass every record gets its own destroy attempt,
\* in list order: while the pass runs each record before its position has
\* had its call, and a pass that ran to its end has called destroy for every
\* record, also for those that follow a failed destroy.
C27_EveryRecordAttempted ==
    /\ (bpc = "pass" \/ PassDone) =>
         /\ Len(passReplies) = (IF PassDone THEN Len(destroyList)
                                            ELSE destroyIdx - 1)
         /\ \A k \in 1..Len(passReplies) :
              passReplies[k].id = destroyList[k].id

\* A pass went on to the second record after the destroy of the first
\* failed.
C27_Witness ==
    /\ PassDone
    /\ Len(destroyList) >= 2
    /\ 1 \in PassFailed
    /\ Len(passReplies) = Len(destroyList)

\* C28: at the end of a destroy-all pass success + failed is the number of
\* records, success is the number of destroy calls that reported success
\* and failed the number of those that did not.
C28_PassTallies ==
    PassDone =>
        /\ success + failed = Len(destroyList)
        /\ success = Cardinality(PassSucceeded)
        /\ failed = Cardinality(PassFailed)

\* The poll saw the instance running with a port mapping and the health
\* probe answered 200.
HealthyObs(obs) == obs.probed # 0 /\ obs.code = 200

\* C29: during the readiness wait a poll whose health probe is unreachable
\* or answers a status other than 200 does not end the wait: it neither
\* returns an endpoint nor raises, and the loop stays in the wait; and a
\* later poll made within the timeout, after a probe has failed, that sees
\* the instance running with a port mapping and a 200 health response makes
\* the wait return the endpoint it probed.
C29_FailedProbeKeepsPolling ==
    [][/\ (pc = "wait_ready" /\ readyObs' # readyObs /\ ProbeFails(readyObs'))
          => (pc' = "wait_ready" /\ exc' = exc /\ api_url' = 0)
       /\ (pc = "wait_ready" /\ probeFailed /\ HealthyObs(readyObs'))
          => /\ api_url' = readyObs'.probed
             /\ pc' = (IF provider = "vast" THEN "submit" ELSE "models_check")
             /\ exc' = exc]_vars

\* The wait returned an endpoint after an earlier probe of it had failed.
C29_Witness ==
    /\ probeFailed
    /\ api_url # 0
    /\ pc \in {"submit", "models_check"}
    /\ elapsed > 0

\* C30: once a log fetch of the job wait has failed, streaming is disabled
\* for the remainder of the wait: no further log fetch is made, neither on a
\* later poll nor as a final flush, and the failed fetch is not what ends
\* the wait, which still ends by returning, by raising the job's failure or
\* by timing out.
C30_FetchFailureDisablesStreaming ==
    /\ [](fetchFailed => ~stream_logs)
    /\ [][fetchFailed => sentOffsets' = sentOffsets]_vars
    /\ [][(pc = "wait_job" /\ fetchFailed')
            => exc' # Exc("HTTPError", 0, "logs")]_vars

\* ---------------------------------------------------------------------
\* Claims C31..C39.
\* ---------------------------------------------------------------------

\* A step of cmd_separate itself: every request it makes carries a timeout
\* and every loop sleeps a bounded time, so the run always takes its next
\* step.  Interrupts and the service's steps are not owed to anybody.
RunStep ==
    \/ Start
    \/ TryCreate
    \/ EnterTry
    \/ ReadyPoll
    \/ ReadyTimedOut
    \/ ModelsCheck
    \/ ModelsPoll
    \/ SubmitJob
    \/ JobPoll
    \/ JobTimedOut
    \/ Download
    \/ Finally

\* Termination does not depend on what the job prints nor on how many
\* offers were tried before one was created: the log stays empty and the
\* ranked list holds one offer.
LiveInit == Init /\ nOffers = 1

LiveNext ==
    \/ RunStep
    \/ Interrupt
    \/ TaskStart
    \/ TaskFinish
    \/ ModelsExtracted

\* The run under the assumption that it keeps taking its steps.
LiveSpec == LiveInit /\ [][LiveNext]_vars /\ WF_vars(RunStep)

\* C31: every readiness wait and every job wait terminates: with the clock
\* advancing between polls, a run that is inside its try block with a created
\* instance, in one of its waits or between them, eventually reaches its
\* finally clause, so no wait lasts for ever; and a step of the run taken in
\* a wait whose timeout has elapsed leaves the wait by raising.
C31_WaitsTerminate ==
    /\ (pc \in InTry) ~> (pc \in {"finally", "done"})
    /\ [][(/\ runVars' # runVars
           /\ \/ pc = "wait_ready" /\ elapsed >= ReadyTimeout
              \/ pc = "wait_job" /\ elapsed >= JobTimeout)
            => pc' = "finally"]_vars

\* A readiness wait and a job wait both ran into their deadline checks and
\* the run came to its teardown.
C31_Witness ==
    /\ pc = "done"
    /\ instance # 0
    /\ JobWaitTimedOut
    /\ destroyCalls = 1

\* The GPU type at catalog position i as the ranking sees it.
GpuAt(i) == RunPodGpu(catalog[i])

\* The name of the type at catalog position i contains the preferred model
\* p, in whatever case it is written.
MatchesModel(i, p) == \E t \in catalog[i].names : t[1] = p

\* The type at i comes before the type at j in price order, equal prices in
\* catalog order.
Cheaper(i, j) ==
    \/ GpuAt(i).price_per_hour < GpuAt(j).price_per_hour
    \/ GpuAt(i).price_per_hour = GpuAt(j).price_per_hour /\ i < j

\* The catalog positions of the types with enough VRAM, and of the K
\* cheapest of them.
Eligible == {i \in 1..Len(catalog) : catalog[i].memoryInGb >= MIN_VRAM_GB}
CheapestK ==
    LET e == Eligible
    IN {i \in e : Cardinality({j \in e : Cheaper(j, i)}) < TopK}

\* The offer the preferred model p pulls from the offers `top` when those in
\* `claimed` are taken: the cheapest unclaimed one that matches, 0 for none.
PickOf(p, claimed, top) ==
    LET c == {i \in top : MatchesModel(i, p) /\ i \notin claimed}
    IN IF c = {} THEN 0
       ELSE CHOOSE i \in c : \A j \in c : i = j \/ Cheaper(i, j)

\* The picks of the preferred models p.. in list order, after `picks`.
RECURSIVE PicksFrom(_, _, _)
PicksFrom(p, picks, top) ==
    IF p > NumPreferred THEN picks
    ELSE PicksFrom(p + 1,
                   Append(picks,
                          PickOf(p, {picks[q] : q \in 1..Len(picks)}, top)),
                   top)

\* The place the claim gives the eligible type i in the full ranking, given
\* the pick of each preferred model and the eligible types `e`: the pulled
\* ones first, in the order of their models, then the others in price order.
PlaceOf(i, picks, e) ==
    LET claimed == {picks[q] : q \in 1..Len(picks)} \ {0} IN
    IF i \in claimed
      THEN LET p == CHOOSE q \in 1..Len(picks) : picks[q] = i
           IN Cardinality({q \in 1..p : picks[q] # 0})
      ELSE Cardinality(claimed)
             + Cardinality({j \in e \ claimed : Cheaper(j, i)}) + 1

\* C32: in get_ranked_gpus each preferred model, taken in the order of the
\* preferred list, pulls at most one offer, the cheapest not yet claimed one
\* among the 10 cheapest whose name contains the model name in any case;
\* the pulled offers come first in the order of their models, the other
\* offers follow in price order, no offer appears twice, and the output is
\* this ranking cut to max_results.
C32_PreferredPull ==
    (rankPc = "ranked" /\ provider = "runpod") =>
        LET e == Eligible
            picks == PicksFrom(1, <<>>, CheapestK) IN
        /\ Len(ranked) = (IF Cardinality(e) < MaxResults
                            THEN Cardinality(e) ELSE MaxResults)
        /\ \A k \in 1..Len(ranked) :
              /\ ranked[k].id \in e
              /\ PlaceOf(ranked[k].id, picks, e) = k

\* Two offers among the 10 cheapest match the first preferred model, one of
\* them in lower case: the cheaper one is pulled to the front, ahead of a
\* cheaper offer that matches nothing, and the other one stays in price
\* order.
C32_Witness ==
    /\ rankPc = "ranked"
    /\ provider = "runpod"
    /\ Cardinality({i \in CheapestK : MatchesModel(i, 1)}) = 2
    /\ \E t \in ranked[1].names : t = <<1, "lower">>
    /\ ranked[1].price_per_hour > ranked[2].price_per_hour
    /\ \E k \in 3..Len(ranked) : <<1, "listed">> \in ranked[k].names


\* ----------------------------------------------------------------- C33
\* The tasks started by a step.
NewTasks == {t \in tasks' : \A u \in tasks : u.tid # t.tid}

\* C33: a POST /job whose job id is already in the job table is answered 409,
\* and a POST /job answered 409 (duplicate id) or 503 (models not ready)
\* leaves the job table unchanged and starts no background task; a task is
\* started only for an id that was absent while the models were ready.
C33_RejectedPostChangesNothing ==
    [][/\ \A id \in JobIds :
            (ClientPost(id) /\ (id \in DOMAIN JOBS \/ ~modelsReady))
              => /\ CreateJobCode(id) \in {409, 503}
                 /\ (id \in DOMAIN JOBS) => (CreateJobCode(id) = 409)
                 /\ JOBS' = JOBS
                 /\ NewTasks = {}
       /\ \A t \in NewTasks : t.job \notin DOMAIN JOBS /\ modelsReady]_vars

C33_Witness ==
    \E id \in DOMAIN JOBS :
      /\ CreateJobCode(id) = 409
      /\ nextTid <= MaxSubmits
      /\ nextTid > 1
      /\ JOBS[id].status = "completed"
      /\ tasks = {}


\* ----------------------------------------------------------------- C34
\* C34: at every moment, an interrupted save included, the registry file
\* holds a complete list: it is never empty or cut short by a save.
C34_FileAlwaysWhole == regFile.exists => regFile.whole


\* ----------------------------------------------------------------- C35
\* C35: the job wait raises only when the service reports the job failed,
\* when its deadline has passed, or when a status poll fails (an interrupt of
\* the user aside); a failed log fetch never makes it raise, and a job seen
\* completed is returned as completed.
C35_LogFetchNeverFailsWait ==
    [][/\ (pc = "wait_job" /\ exc' # exc /\ exc'.kind # "KeyboardInterrupt")
            => \/ jobSeen' = "failed" /\ exc' = JobFailedExc
               \/ elapsed >= JobTimeout /\ exc' = JobTimeoutExc
               \/ exc' = Exc("TransportError", 0, "job status")
       /\ (pc = "wait_job" /\ jobSeen' = "completed" /\ fetchFailed')
            => (pc' = "download" /\ exc' = exc)]_vars


\* ----------------------------------------------------------------- C36
\* The background tasks that take a step: they start, or end.
ActingTasks == {t \in tasks : t \notin tasks'}

\* C36: an entry leaves the job table only when its status is not running,
\* and a background task that takes a step finds the entry of its job id in
\* the table.
C36_TaskAndDeleteNeverConflict ==
    [][/\ \A id \in DOMAIN JOBS :
            (id \notin DOMAIN JOBS') => JOBS[id].status # "running"
       /\ \A t \in ActingTasks : t.job \in DOMAIN JOBS]_vars


\* ----------------------------------------------------------------- C37
\* s is the beginning of t.
IsPrefix(s, t) == Len(s) <= Len(t) /\ \A k \in 1..Len(s) : s[k] = t[k]

FailedStatus == {"error", "not_found"}

\* C38: in the Vast.ai readiness wait a poll whose status request failed
\* returns nothing and raises nothing, the loop sleeps and goes on; the wait
\* is left only with a ready endpoint, at its deadline or by an interrupt,
\* and a run that created an instance and ended without the keep flag and
\* without an interrupt of the user has issued its destroy call.
C38_FailedPollKeepsWaiting ==
    /\ [][(ReadyPoll /\ provider = "vast" /\ readyObs'.status \in FailedStatus)
            => /\ pc' = "wait_ready"
               /\ exc' = exc
               /\ api_url' = api_url
               /\ elapsed' > elapsed]_vars
    /\ [][(pc = "wait_ready" /\ provider = "vast" /\ pc' # "wait_ready")
            => \/ /\ pc' = "submit"
                  /\ readyObs'.status = "running"
                  /\ api_url' = readyObs'.probed
               \/ /\ pc' = "finally"
                  /\ \/ elapsed >= ReadyTimeout /\ exc' = ReadyTimeoutExc
                     \/ exc'.kind = "KeyboardInterrupt"]_vars
    /\ []((/\ pc = "done"
           /\ provider = "vast"
           /\ instance # 0
           /\ ~keep
           /\ exc.kind # "KeyboardInterrupt")
            => destroyCalls = 1)

C38_Witness ==
    /\ provider = "vast"
    /\ pc = "done"
    /\ readyObs.status \in FailedStatus
    /\ firstError = Exc("Exception", 0, "Instance failed to start")
    /\ destroyCalls = 1


\* ----------------------------------------------------------------- C39
\* C39: in the RunPod flow the polling loop is entered only when the first
\* /status reply says the models are not ready; it makes at most
\* ModelsPollMax polls, is left at the first reply that says ready, and a
\* run that leaves it without an exception goes to the submit of the job,
\* whether or not a reply ever said ready.
C39_ModelsWaitBounded ==
    /\ [](modelPolls < ModelsPollMax)
    /\ [][(pc = "models_check" /\ pc' = "models_wait") => ~statusReady']_vars
    /\ [][(ModelsPoll /\ exc' = exc)
            => /\ statusReady' = modelsReady
               /\ statusReady' => pc' = "submit"
               /\ (pc' = "models_wait") => (modelPolls' = modelPolls + 1)
               /\ (modelPolls + 1 = ModelsPollMax) => pc' = "submit"]_vars
    /\ [][(pc = "models_wait" /\ pc' # "models_wait" /\ exc' = exc)
            => pc' = "submit"]_vars
    /\ [][(pc = "submit" /\ provider = "runpod" /\ pc' # "submit"
             /\ exc'.kind # "KeyboardInterrupt")
            => submitCalls' = submitCalls + 1]_vars

C39_Witness ==
    /\ provider = "runpod"
    /\ "status" \in calls
    /\ ~statusReady
    /\ submitCalls = 1
    /\ firstError = Exc("HTTPError", 0, "submit")

=============================================================================
